---- MODULE Spec2Model ----
(***************************************************************************)
(* A model of src/src/gdb.rs: the GDB target adapter of lite-cornea.       *)
(*                                                                         *)
(*   - GuestState, the 26-slot register file, with gdb_serialize and       *)
(*     gdb_deserialize (specification SpecRegs);                           *)
(*   - IrisGdbStub's SingleThreadOps: read_registers, read_addrs,          *)
(*     write_addrs, write_registers (specification SpecTarget);            *)
(*   - GdbOverPipe: the reader thread, the channel, and the consumer's     *)
(*     read and peek (specification SpecPipe).                             *)
(*                                                                         *)
(* Machine words.  TLC's integers are 32-bit signed, so a u32 such as      *)
(* 0xDEADBEEF is not a TLC integer.  A machine word is held as the         *)
(* sequence of its 16-bit limbs, least significant limb first: a u32 is    *)
(* <<lo, hi>> (value lo + 65536*hi), a u64 has four limbs.  Bytes are      *)
(* integers 0..255.  Rust arrays and slices are 0-indexed; byte buffers    *)
(* are TLA+ sequences, so Rust's buf[k] is buf[k+1] here, while the        *)
(* register file is a function on 0..25 and keeps Rust's indices.          *)
(***************************************************************************)
EXTENDS Integers, Sequences, FiniteSets, TLC

VARIABLES
    regs,       \* GuestState.regs of the register file last operated on
    regs0,      \* history: that register file before the last call that took it as &mut
    bytes,      \* the argument of gdb_deserialize
    wire,       \* the bytes gdb_serialize handed to write_byte, in order
    wireOf,     \* history: the register file gdb_serialize was called on
    ret,        \* the last adapter call's result: "none", "Ok" or "Err"
    calls,      \* number of register-file calls made (bounded by MaxCalls)
    op,         \* the name of the last operation
    iris,       \* the simulator behind FastModelIris: its answers to the adapter's requests
    data,       \* read_addrs' destination buffer after the call
    data0,      \* history: that buffer before the call
    readLog,    \* resource ids passed to resource::read by the last read_registers
    rd,         \* the reader thread: [pc, item], item the outcome of its last read
    chan,       \* the mpsc channel: items sent and not yet received, oldest first
    obtained,   \* history: the items the reader thread obtained from the input stream
    delivered,  \* history: the items the consumer received through read and peek
    cret,       \* what the consumer's last read or peek returned
    consumer    \* "running", or "panicked" after recv().unwrap() on a disconnected channel

vars == <<regs, regs0, bytes, wire, wireOf, ret, calls, op, iris, data, data0, readLog,
          rd, chan, obtained, delivered, cret, consumer>>

regVars == <<regs, regs0, bytes, wire, wireOf, calls>>
targetVars == <<iris, data, data0, readLog>>
pipeVars == <<rd, chan, obtained, delivered, cret, consumer>>

(***************************************************************************)
(* Bounds of the model.                                                    *)
(***************************************************************************)
MaxBytes == 112     \* longest gdb_deserialize argument cut from a byte pattern
MaxSeed == 2        \* number of byte patterns and of ramp register files
MaxCalls == 2       \* register-file calls per behaviour
MaxRes == 2         \* resources in the simulator's directory
MaxWords == 1       \* words the simulator returns for a memory read
MaxData == 9        \* longest read_addrs destination buffer
MaxInput == 3       \* items the input stream yields before end-of-data

(***************************************************************************)
(* Program constants.                                                      *)
(***************************************************************************)
NumRegs == 26       \* pub regs: [u32; 26]
PadBytes == 8       \* for _ in 0..8 { write_byte(Some(0)) }
ChunkSize == 4      \* chunks_exact(4), bytes.len() % 4

Min(a, b) == IF a < b THEN a ELSE b

Take(s, n) == SubSeq(s, 1, Min(n, Len(s)))

(***************************************************************************)
(* Words and bytes.                                                        *)
(***************************************************************************)
U32(hi, lo) == <<lo, hi>>

U64(l3, l2, l1, l0) == <<l0, l1, l2, l3>>

\* A plausible slip: the bytes most significant first (to_be_bytes).
RECURSIVE to_be_bytes(_)
to_be_bytes(w) ==
    IF w = <<>> THEN <<>>
    ELSE to_be_bytes(Tail(w)) \o <<Head(w) \div 256, Head(w) % 256>>

\* u.to_le_bytes(): the bytes of a word, least significant first.
RECURSIVE to_le_bytes(_)
to_le_bytes(w) ==
    IF w = <<>> THEN <<>>
    ELSE <<Head(w) % 256, Head(w) \div 256>> \o to_le_bytes(Tail(w))

\* u32::from_le_bytes(c) for a 4-byte chunk c.
from_le_bytes(c) == <<c[1] + 256 * c[2], c[3] + 256 * c[4]>>

\* `x as u32` for a u64 x: the low 32 bits.
as_u32(w) == SubSeq(w, 1, 2)

ZeroWord == U32(0, 0)

DeadBeef == U32(57005, 48879)               \* 0xDEADBEEF
AllOnes == U32(65535, 65535)                \* 0xFFFFFFFF

Slots == 0 .. (NumRegs - 1)

ZeroRegs == [i \in Slots |-> ZeroWord]      \* GuestState::default()

\* A register file whose 26 slots are pairwise different and have no zero limb.
Ramp(k) == [i \in Slots |-> U32(4096 * k + 257 * i + 1, 771 * i + k + 513)]

Poke(r, i, w) == [r EXCEPT ![i] = w]

RegFiles ==
    {ZeroRegs, [i \in Slots |-> AllOnes]} \cup {Ramp(k) : k \in 1 .. MaxSeed}
    \cup {Poke(ZeroRegs, i, DeadBeef) : i \in Slots}

\* A byte pattern of MaxBytes bytes, no two neighbours equal.
Pattern(k) == [j \in 1 .. MaxBytes |-> (37 * k + 11 * j) % 256]

(***************************************************************************)
(* GuestState: gdb_serialize and gdb_deserialize.                          *)
(***************************************************************************)
\* A plausible slip, reading the comment "above 16" literally.
NeedsPadAbove16(num) == num > 16 /\ num < 24

\* if num >= 16 && num < 24
NeedsPad(num) == num >= 16 /\ num < 24

Zeros(n) == [j \in 1 .. n |-> 0]

\* The body of gdb_serialize's loop from slot num on; out is what write_byte
\* has received so far.
RECURSIVE SerializeLoop(_, _, _)
SerializeLoop(r, num, out) ==
    IF num >= NumRegs THEN out
    ELSE SerializeLoop(r, num + 1,
            out \o to_le_bytes(r[num])
                \o (IF NeedsPad(num) THEN Zeros(PadBytes) ELSE <<>>))

Serialize(r) == SerializeLoop(r, 0, <<>>)

\* A plausible slip: the length check left out (chunks_exact drops the remainder).
LengthOkNoCheck(b) == TRUE

\* if bytes.len() % 4 != 0 { return Err(()) }
LengthOk(b) == Len(b) % ChunkSize = 0

\* The k-th item (from 0) of bytes.chunks_exact(4).
Chunk(b, k) == SubSeq(b, ChunkSize * k + 1, ChunkSize * k + ChunkSize)

NumChunks(b) == Len(b) \div ChunkSize

\* for reg in &mut self.regs { *reg = regs.next().ok_or(())?; } from slot i on:
\* each slot is assigned in place; the first missing chunk returns Err and
\* leaves the slots already assigned as they are.
RECURSIVE DeserializeLoop(_, _, _)
DeserializeLoop(r, b, i) ==
    IF i >= NumRegs THEN [ret |-> "Ok", regs |-> r]
    ELSE IF i >= NumChunks(b) THEN [ret |-> "Err", regs |-> r]
    ELSE DeserializeLoop([r EXCEPT ![i] = from_le_bytes(Chunk(b, i))], b, i + 1)

Deserialize(r, b) ==
    IF ~LengthOk(b) THEN [ret |-> "Err", regs |-> r]
    ELSE DeserializeLoop(r, b, 0)

\* fn pc(&self) -> u32
pc(r) == r[15]

InitTarget ==
    /\ iris = [list_ok |-> TRUE, resources |-> <<>>, values |-> <<>>, mem_ok |-> TRUE, mem |-> <<>>]
    /\ data = <<>>
    /\ data0 = <<>>
    /\ readLog = <<>>

InitPipe ==
    /\ rd = [pc |-> "read", item |-> [tag |-> "None", val |-> 0]]
    /\ chan = <<>>
    /\ obtained = <<>>
    /\ delivered = <<>>
    /\ cret = [tag |-> "None", val |-> 0]
    /\ consumer = "running"

InitRegFile ==
    /\ regs0 = regs
    /\ wire = <<>>
    /\ wireOf = regs
    /\ ret = "none"
    /\ calls = 0
    /\ op = "new"

\* The register file and the gdb_deserialize argument are the inputs: the
\* argument is a prefix of a byte pattern or of the file's own serialization.
InitRegs ==
    /\ regs \in RegFiles
    /\ bytes \in {Take(Pattern(k), n) : k \in 1 .. MaxSeed, n \in 0 .. MaxBytes}
            \cup {Take(Serialize(regs), n) : n \in 0 .. MaxBytes}
            \cup {Serialize(regs)}
    /\ InitRegFile
    /\ InitTarget
    /\ InitPipe

gdb_serialize ==
    /\ calls < MaxCalls
    /\ wire' = Serialize(regs)
    /\ wireOf' = regs
    /\ calls' = calls + 1
    /\ op' = "gdb_serialize"
    /\ UNCHANGED <<regs, regs0, bytes, ret>>
    /\ UNCHANGED targetVars
    /\ UNCHANGED pipeVars

gdb_deserialize ==
    /\ calls < MaxCalls
    /\ LET res == Deserialize(regs, bytes)
       IN /\ regs' = res.regs
          /\ ret' = res.ret
    /\ regs0' = regs
    /\ calls' = calls + 1
    /\ op' = "gdb_deserialize"
    /\ UNCHANGED <<bytes, wire, wireOf>>
    /\ UNCHANGED targetVars
    /\ UNCHANGED pipeVars

NextRegs == gdb_serialize \/ gdb_deserialize

SpecRegs == InitRegs /\ [][NextRegs]_vars

(***************************************************************************)
(* Claims about the register file, checked under SpecRegs.                 *)
(***************************************************************************)
\* Where slot i starts in the serialized layout, counted from 0: 4 bytes per
\* slot before it and 8 more for each of the slots 16..23 before it.
Offset(i) ==
    4 * i + 8 * (IF i <= 16 THEN 0 ELSE IF i >= 24 THEN 8 ELSE i - 16)

\* C2: gdb_serialize emits exactly 168 bytes: for slots 0..25 in order the
\* slot's 4 little-endian bytes, then 8 zero bytes after each of the slots
\* 16..23 and after no other slot; the zero register file gives 168 zeros.
C2_SerializeLayout ==
    op = "gdb_serialize" =>
        /\ Len(wire) = 168
        /\ \A i \in Slots :
              LET o == Offset(i)
                  lo == wireOf[i][1]
                  hi == wireOf[i][2]
              IN /\ wire[o + 1] = lo % 256
                 /\ wire[o + 2] = lo \div 256
                 /\ wire[o + 3] = hi % 256
                 /\ wire[o + 4] = hi \div 256
                 /\ (i >= 16 /\ i <= 23) => \A j \in 5 .. 12 : wire[o + j] = 0
        /\ (wireOf = ZeroRegs => \A j \in 1 .. 168 : wire[j] = 0)

C2_Witness ==
    /\ op = "gdb_serialize"
    /\ wireOf = Ramp(1)
    /\ Len(wire) = 168

\* The case of C3: gdb_deserialize was applied to the first 104 bytes of the
\* serialization of the register file it was called on.
RoundTripCase ==
    /\ op = "gdb_deserialize"
    /\ bytes = Take(Serialize(regs0), 104)

\* C3 as stated: deserializing the first 104 bytes of serialize(R) succeeds
\* and yields R in all 26 slots.
C3_RoundTripAllSlots ==
    RoundTripCase => (ret = "Ok" /\ regs = regs0)

\* C3 amended: deserializing the first 104 bytes of serialize(R) succeeds and
\* yields R in slots 0..16 only; the other slots are decoded from the padded
\* region: slots 19, 22 and 25 hold R's slots 17, 18 and 19, and slots 17, 18,
\* 20, 21, 23 and 24 are zero.
C3_RoundTripPrefix ==
    RoundTripCase =>
        /\ ret = "Ok"
        /\ \A i \in 0 .. 16 : regs[i] = regs0[i]
        /\ regs[19] = regs0[17]
        /\ regs[22] = regs0[18]
        /\ regs[25] = regs0[19]
        /\ \A i \in {17, 18, 20, 21, 23, 24} : regs[i] = ZeroWord

C3_Witness ==
    /\ RoundTripCase
    /\ regs0 = Ramp(1)
    /\ ret = "Ok"
    /\ regs # regs0

\* C4: gdb_deserialize returns an error for every input whose length is not a
\* multiple of 4 or is below 104; for every other input it succeeds and sets
\* slot i to the little-endian value of bytes 4i..4i+3, whatever follows the
\* first 104 bytes.
C4_Deserialize ==
    op = "gdb_deserialize" =>
        IF Len(bytes) % 4 # 0 \/ Len(bytes) < 104
        THEN ret = "Err"
        ELSE /\ ret = "Ok"
             /\ \A i \in Slots :
                   /\ regs[i][1] = bytes[4 * i + 1] + 256 * bytes[4 * i + 2]
                   /\ regs[i][2] = bytes[4 * i + 3] + 256 * bytes[4 * i + 4]

C4_Witness ==
    /\ op = "gdb_deserialize"
    /\ ret = "Ok"
    /\ Len(bytes) > 104
    /\ regs # regs0

\* C9: whenever gdb_deserialize returns an error, the register file it was
\* applied to has all 26 slots equal to their values before the call.
C9_ErrorLeavesRegisterFile ==
    (op = "gdb_deserialize" /\ ret = "Err") => regs = regs0

(***************************************************************************)
(* The simulator behind FastModelIris, as the adapter sees it: the answers *)
(* of resource::get_list, resource::read and memory::read.  Resource ids   *)
(* are the positions in the directory.                                     *)
(***************************************************************************)
Word1 == U64(0, 0, 57005, 48879)            \* 0x00000000DEADBEEF
Word2 == U64(4386, 13124, 21862, 30600)     \* 0x1122334455667788

Names == {"R0", "R15", "XPSR", "FPSCR"}

Answers ==
    { [ok |-> FALSE, data |-> <<>>],
      [ok |-> TRUE, data |-> <<>>],
      [ok |-> TRUE, data |-> <<Word2, Word1>>] }

SeqsUpTo(S, n) == UNION {[1 .. k -> S] : k \in 0 .. n}

Directories ==
    { [k \in 1 .. Len(ns) |-> [name |-> ns[k], id |-> k]] : ns \in SeqsUpTo(Names, MaxRes) }

\* resource::get_list(&mut self.iris, self.instance_id, None, None)
resource_get_list(sim) == [ok |-> sim.list_ok, list |-> sim.resources]

\* resource::read(&mut self.iris, self.instance_id, vec![id])
resource_read(sim, id) == sim.values[id]

\* memory::read(&mut self.iris, self.instance_id, 0, start_addr, 1, len)
memory_read(sim, start_addr, len) == [ok |-> sim.mem_ok, data |-> sim.mem]

(***************************************************************************)
(* SingleThreadOps for IrisGdbStub.                                        *)
(***************************************************************************)
NoSlot == 0 - 1

\* A plausible slip: XPSR stored at slot 16, the slot after PC.
RegNumXpsr16(name) ==
    CASE name = "R0" -> 0 [] name = "R1" -> 1 [] name = "R2" -> 2 [] name = "R3" -> 3
      [] name = "R4" -> 4 [] name = "R5" -> 5 [] name = "R6" -> 6 [] name = "R7" -> 7
      [] name = "R8" -> 8 [] name = "R9" -> 9 [] name = "R10" -> 10
      [] name = "R11" -> 11 [] name = "R12" -> 12 [] name = "R13" -> 13
      [] name = "R14" -> 14 [] name = "R15" -> 15 [] name = "XPSR" -> 16
      [] OTHER -> NoSlot

\* let regnum = match res.name.as_str() { ... _ => continue };  NoSlot is `continue`.
RegNum(name) ==
    CASE name = "R0" -> 0 [] name = "R1" -> 1 [] name = "R2" -> 2 [] name = "R3" -> 3
      [] name = "R4" -> 4 [] name = "R5" -> 5 [] name = "R6" -> 6 [] name = "R7" -> 7
      [] name = "R8" -> 8 [] name = "R9" -> 9 [] name = "R10" -> 10
      [] name = "R11" -> 11 [] name = "R12" -> 12 [] name = "R13" -> 13
      [] name = "R14" -> 14 [] name = "R15" -> 15 [] name = "XPSR" -> 25
      [] OTHER -> NoSlot

\* The for loop of read_registers from the k-th listed resource on.
RECURSIVE ReadRegistersLoop(_, _, _, _, _)
ReadRegistersLoop(sim, list, k, r, log) ==
    IF k > Len(list) THEN [ret |-> "Ok", regs |-> r, log |-> log]
    ELSE LET res == list[k]
             regnum == RegNum(res.name)
         IN IF regnum = NoSlot THEN ReadRegistersLoop(sim, list, k + 1, r, log)
            ELSE LET val == resource_read(sim, res.id)
                     seen == Append(log, res.id)
                 IN IF ~val.ok THEN [ret |-> "Err", regs |-> r, log |-> seen]
                    ELSE ReadRegistersLoop(sim, list, k + 1,
                            IF val.data # <<>>
                            THEN [r EXCEPT ![regnum] = as_u32(val.data[1])]
                            ELSE r,
                            seen)

ReadRegisters(sim, r) ==
    LET got == resource_get_list(sim)
    IN IF ~got.ok THEN [ret |-> "Err", regs |-> r, log |-> <<>>]
       ELSE ReadRegistersLoop(sim, got.list, 1, r, <<>>)

\* A plausible slip: each word taken as 4 bytes.
RECURSIVE FlattenU32(_)
FlattenU32(words) ==
    IF words = <<>> THEN <<>>
    ELSE to_le_bytes(as_u32(Head(words))) \o FlattenU32(Tail(words))

\* mem.data.into_iter().map(|u| u.to_le_bytes()).flatten()
RECURSIVE Flatten(_)
Flatten(words) ==
    IF words = <<>> THEN <<>>
    ELSE to_le_bytes(Head(words)) \o Flatten(Tail(words))

\* for (offset, byte) in ... { if data.len() > offset { data[offset] = byte; } }
\* from the item at `offset` (counted from 0) on.
RECURSIVE CopyLoop(_, _, _)
CopyLoop(buf, flat, offset) ==
    IF offset >= Len(flat) THEN buf
    ELSE CopyLoop(IF Len(buf) > offset
                  THEN [buf EXCEPT ![offset + 1] = flat[offset + 1]]
                  ELSE buf,
                  flat, offset + 1)

ReadAddrs(sim, start_addr, buf) ==
    LET mem == memory_read(sim, start_addr, Len(buf))
    IN IF ~mem.ok THEN [ret |-> "Err", data |-> buf]
       ELSE [ret |-> "Ok", data |-> CopyLoop(buf, Flatten(mem.data), 0)]

\* The inputs of the calls.
TargetRegFiles == {ZeroRegs, Ramp(1)}
Addrs == {4096}
Fill(n) == [j \in 1 .. n |-> 170 - j]
Buffers == {Fill(n) : n \in 0 .. MaxData}

\* The simulators the adapter is run against: every directory with every
\* answer to its reads (or a failing get_list) over a memory of one word, and
\* every memory answer (or a failing memory read) over a one-register directory.
Simulators ==
    { [list_ok |-> TRUE, resources |-> d, values |-> v, mem_ok |-> TRUE, mem |-> <<Word1>>] :
        d \in Directories, v \in SeqsUpTo(Answers, MaxRes) }
    \cup
    { [list_ok |-> lk, resources |-> <<[name |-> "R0", id |-> 1]>>,
       values |-> <<[ok |-> TRUE, data |-> <<Word2, Word1>>]>>, mem_ok |-> mk, mem |-> m] :
        lk \in BOOLEAN, mk \in BOOLEAN, m \in SeqsUpTo({Word1, Word2}, MaxWords) }

InitTargetOps ==
    /\ iris \in Simulators
    /\ Len(iris.values) = Len(iris.resources)
    /\ ~iris.mem_ok => iris.mem = <<>>
    /\ data = <<>>
    /\ data0 = <<>>
    /\ readLog = <<>>
    /\ regs = ZeroRegs
    /\ bytes = <<>>
    /\ InitRegFile
    /\ InitPipe

\* The GuestState and the buffer are arguments that live for one call: a call
\* that takes no register file leaves none behind, and likewise for the buffer.
NoRegisterFile == regs' = ZeroRegs /\ regs0' = ZeroRegs /\ readLog' = <<>>
NoBuffer == data' = <<>> /\ data0' = <<>>

read_registers ==
    /\ \E r \in TargetRegFiles :
         LET res == ReadRegisters(iris, r)
         IN /\ regs' = res.regs
            /\ ret' = res.ret
            /\ readLog' = res.log
            /\ regs0' = r
    /\ op' = "read_registers"
    /\ NoBuffer
    /\ UNCHANGED <<iris, bytes, wire, wireOf, calls>>
    /\ UNCHANGED pipeVars

read_addrs ==
    /\ \E start_addr \in Addrs, buf \in Buffers :
         LET res == ReadAddrs(iris, start_addr, buf)
         IN /\ data' = res.data
            /\ ret' = res.ret
            /\ data0' = buf
    /\ op' = "read_addrs"
    /\ NoRegisterFile
    /\ UNCHANGED <<iris, bytes, wire, wireOf, calls>>
    /\ UNCHANGED pipeVars

\* A plausible slip: the write goes through to the simulator's memory.
write_addrs_stores ==
    /\ iris' = [iris EXCEPT !.mem = <<Word2>>, !.mem_ok = TRUE]
    /\ ret' = "Ok"
    /\ op' = "write_addrs"
    /\ NoRegisterFile
    /\ NoBuffer
    /\ UNCHANGED <<bytes, wire, wireOf, calls>>
    /\ UNCHANGED pipeVars

\* fn write_addrs(&mut self, _: u32, _: &[u8]) -> TargetResult<(), Self> { Ok(()) }
\* Both arguments are ignored, so the action has no inputs.
write_addrs ==
    /\ ret' = "Ok"
    /\ op' = "write_addrs"
    /\ NoRegisterFile
    /\ NoBuffer
    /\ UNCHANGED <<iris, bytes, wire, wireOf, calls>>
    /\ UNCHANGED pipeVars

\* fn write_registers(&mut self, _: &GuestState) -> TargetResult<(), Self> { Ok(()) }
\* The argument is ignored, so the action has no inputs.
write_registers ==
    /\ ret' = "Ok"
    /\ op' = "write_registers"
    /\ NoRegisterFile
    /\ NoBuffer
    /\ UNCHANGED <<iris, bytes, wire, wireOf, calls>>
    /\ UNCHANGED pipeVars

NextTarget == read_registers \/ read_addrs \/ write_addrs \/ write_registers

SpecTarget == InitTargetOps /\ [][NextTarget]_vars

(***************************************************************************)
(* Claims about the target adapter, checked under SpecTarget.              *)
(***************************************************************************)
\* What the two read operations answer on a simulator, over all their inputs.
ReadResults(sim) ==
    <<[r \in TargetRegFiles |-> ReadRegisters(sim, r)],
      [a \in Addrs |-> [buf \in Buffers |-> ReadAddrs(sim, a, buf)]]>>

\* C6: write_registers and write_addrs report success for every input and
\* change nothing: read_registers and read_addrs answer after the call what
\* they answered before it.
C6_WritesChangeNothing ==
    [][(op' = "write_addrs" \/ op' = "write_registers") =>
          (ret' = "Ok" /\ ReadResults(iris') = ReadResults(iris))]_vars

C6_Witness ==
    /\ op = "write_registers"
    /\ ret = "Ok"
    /\ iris.mem = <<Word1>>
    /\ Len(iris.resources) = 2
    /\ iris.resources[1].name = "R0"
    /\ iris.values[1].data # <<>>

\* Byte b (from 0) of the little-endian bytes of word w.
ByteOf(w, b) ==
    LET limb == w[(b \div 2) + 1]
    IN IF b % 2 = 0 THEN limb % 256 ELSE limb \div 256

BytesPerWord(words) == IF words = <<>> THEN 0 ELSE 2 * Len(words[1])

SlotNames ==
    <<"R0", "R1", "R2", "R3", "R4", "R5", "R6", "R7", "R8", "R9", "R10", "R11",
      "R12", "R13", "R14", "R15">>

NameOfSlot(i) == IF i = 25 THEN "XPSR" ELSE IF i <= 15 THEN SlotNames[i + 1] ELSE "none"

Largest(S) == CHOOSE x \in S : \A y \in S : y <= x

InputBytes == {65, 66, 67}      \* 0x41, 0x42, 0x43
IOErrors == {5}                 \* an IOError, by its code

Ok(b) == [tag |-> "Ok", val |-> b]
Err(e) == [tag |-> "Err", val |-> e]
Eof == [tag |-> "Eof", val |-> 0]
None == [tag |-> "None", val |-> 0]

\* A plausible slip: a stack in place of the queue.
SendFront(q, x) == <<x>> \o q

\* tx.send(x): the channel is a FIFO queue.
Send(q, x) == Append(q, x)

\* res.map(Some) on the received Result<u8, IOError>.
map_Some(res) == IF res.tag = "Ok" THEN [tag |-> "Some", val |-> res.val] ELSE res

InitPipeOps ==
    /\ InitPipe
    /\ InitTarget
    /\ regs = ZeroRegs
    /\ bytes = <<>>
    /\ InitRegFile

\* A plausible slip: the loop also ends on an I/O error.
ReaderReadStopsOnError ==
    /\ rd.pc = "read"
    /\ \/ /\ rd' = [pc |-> "done", item |-> Eof]
          /\ UNCHANGED obtained
       \/ /\ Len(obtained) < MaxInput
          /\ \E b \in InputBytes :
                /\ rd' = [pc |-> "send", item |-> Ok(b)]
                /\ obtained' = Append(obtained, Ok(b))
       \/ /\ Len(obtained) < MaxInput
          /\ \E e \in IOErrors :
                /\ rd' = [pc |-> "done", item |-> Err(e)]
                /\ obtained' = Append(obtained, Err(e))
    /\ UNCHANGED <<chan, delivered, cret, consumer, op, ret>>
    /\ UNCHANGED regVars
    /\ UNCHANGED targetVars

\* match read.read(&mut byte): Ok(0) => break (the closure ends and tx is
\* dropped), Ok(_) and Err(error) go on to tx.send.
ReaderRead ==
    /\ rd.pc = "read"
    /\ \/ /\ rd' = [pc |-> "done", item |-> Eof]
          /\ UNCHANGED obtained
       \/ /\ Len(obtained) < MaxInput
          /\ \E b \in InputBytes :
                /\ rd' = [pc |-> "send", item |-> Ok(b)]
                /\ obtained' = Append(obtained, Ok(b))
       \/ /\ Len(obtained) < MaxInput
          /\ \E e \in IOErrors :
                /\ rd' = [pc |-> "send", item |-> Err(e)]
                /\ obtained' = Append(obtained, Err(e))
    /\ UNCHANGED <<chan, delivered, cret, consumer, op, ret>>
    /\ UNCHANGED regVars
    /\ UNCHANGED targetVars

\* tx.send(Ok(byte[0])).unwrap() / tx.send(Err(error)).unwrap(), then loop.
ReaderSend ==
    /\ rd.pc = "send"
    /\ chan' = Send(chan, rd.item)
    /\ rd' = [rd EXCEPT !.pc = "read"]
    /\ UNCHANGED <<obtained, delivered, cret, consumer, op, ret>>
    /\ UNCHANGED regVars
    /\ UNCHANGED targetVars

\* fn read: self.rx.recv().unwrap().  recv blocks while the channel is empty
\* and the sender lives, and gives Err(RecvError) once it is empty and the
\* sender is dropped; unwrap then panics.
read ==
    /\ consumer = "running"
    /\ \/ /\ chan # <<>>
          /\ cret' = Head(chan)
          /\ chan' = Tail(chan)
          /\ delivered' = Append(delivered, Head(chan))
          /\ UNCHANGED consumer
       \/ /\ chan = <<>>
          /\ rd.pc = "done"
          /\ consumer' = "panicked"
          /\ UNCHANGED <<chan, delivered, cret>>
    /\ op' = "read"
    /\ UNCHANGED <<rd, obtained, ret>>
    /\ UNCHANGED regVars
    /\ UNCHANGED targetVars

\* A plausible slip: a lookahead that leaves the item queued.
peek_keeps_item ==
    /\ consumer = "running"
    /\ \/ /\ chan # <<>>
          /\ cret' = map_Some(Head(chan))
          /\ UNCHANGED <<chan, delivered>>
       \/ /\ chan = <<>>
          /\ cret' = None
          /\ UNCHANGED <<chan, delivered>>
    /\ op' = "peek"
    /\ UNCHANGED <<rd, obtained, consumer, ret>>
    /\ UNCHANGED regVars
    /\ UNCHANGED targetVars

\* fn peek: match self.rx.try_recv() { Ok(res) => res.map(Some), Err(_) => Ok(None) }
\* try_recv's Err is Empty or Disconnected; both give Ok(None).
peek ==
    /\ consumer = "running"
    /\ \/ /\ chan # <<>>
          /\ cret' = map_Some(Head(chan))
          /\ chan' = Tail(chan)
          /\ delivered' = Append(delivered, Head(chan))
       \/ /\ chan = <<>>
          /\ cret' = None
          /\ UNCHANGED <<chan, delivered>>
    /\ op' = "peek"
    /\ UNCHANGED <<rd, obtained, consumer, ret>>
    /\ UNCHANGED regVars
    /\ UNCHANGED targetVars

NextPipe == ReaderRead \/ ReaderSend \/ read \/ peek

SpecPipe == InitPipeOps /\ [][NextPipe]_vars

(***************************************************************************)
(* Claims about the transport, checked under SpecPipe.                     *)
(***************************************************************************)
IsPrefix(s, t) == Len(s) <= Len(t) /\ SubSeq(t, 1, Len(s)) = s

\* The item the reader thread has read and not yet sent.
InHand == IF rd.pc = "send" THEN <<rd.item>> ELSE <<>>

\* C1: at every moment the items returned to the consumer, in order, are a
\* prefix of the items the reader obtained from the input stream, and what
\* the reader obtained is exactly what was returned, then what is queued,
\* then what the reader holds: nothing is reordered, duplicated or dropped.
C1_DeliveredInOrder ==
    /\ IsPrefix(delivered, obtained)
    /\ obtained = delivered \o chan \o InHand

C1_Witness ==
    /\ Len(delivered) = 3
    /\ delivered[1] = Ok(65)
    /\ delivered[2] = Err(5)
    /\ delivered[3] = Ok(66)

\* A step of the consumer: the reader thread's state changes in each of its
\* own steps and in no step of the consumer.
ConsumerStep(name) == op' = name /\ rd' = rd

\* C5: peek never blocks.  On an empty channel it returns "nothing ready" and
\* leaves the channel unchanged; otherwise it returns the oldest queued item
\* and removes it, so the next read or peek returns the one after it.
C5_PeekConsumes ==
    [][/\ ConsumerStep("peek") =>
            IF chan = <<>>
            THEN cret' = None /\ chan' = chan /\ delivered' = delivered
            ELSE /\ cret'.val = Head(chan).val
                 /\ cret'.tag = (IF Head(chan).tag = "Ok" THEN "Some" ELSE "Err")
                 /\ chan' = Tail(chan)
       /\ (ConsumerStep("read") /\ chan # <<>>) =>
            (cret' = Head(chan) /\ chan' = Tail(chan))
       /\ (consumer = "running" /\ consumer' = "running") => ENABLED peek]_vars

C5_Witness ==
    /\ op = "peek"
    /\ cret = [tag |-> "Some", val |-> 66]
    /\ delivered = <<Ok(65), Ok(66)>>
    /\ chan # <<>>

\* C10: the reader enqueues nothing for end-of-data and stops only on
\* end-of-data, not on an I/O error; once it has stopped and the channel is
\* drained, every peek returns "nothing ready" without error, and a blocking
\* read returns neither a byte nor an error but panics the consumer.
C10_EndOfData ==
    [][/\ (rd.pc # "done" /\ rd'.pc = "done") =>
            (rd'.item = Eof /\ chan' = chan /\ obtained' = obtained)
       /\ (rd.pc = "read" /\ rd' # rd /\ rd'.item.tag = "Err") => rd'.pc = "send"
       /\ (rd.pc = "send" /\ rd' # rd) => (rd'.pc = "read" /\ chan' = Append(chan, rd.item))
       /\ (rd.pc = "done" /\ chan = <<>> /\ ConsumerStep("peek")) =>
            (cret' = None /\ consumer' = "running" /\ delivered' = delivered)
       /\ (rd.pc = "done" /\ chan = <<>> /\ ConsumerStep("read")) =>
            (consumer' = "panicked" /\ delivered' = delivered /\ cret' = cret)]_vars

C10_Witness ==
    /\ consumer = "panicked"
    /\ op = "read"
    /\ delivered = <<Err(5), Ok(65)>>
    /\ rd.pc = "done"

====
